---- MODULE Spec2Model ----
(***************************************************************************)
(* Video controller of Youtube-Backend (getAllVideos, publishAVideo,       *)
(* getVideoById, updateVideo, deleteVideo, togglePublishStatus) as a state *)
(* machine over the Document Store (videos, users' watchHistory) and the   *)
(* Asset Store (cloudinary).  Every `await` of a handler is one atomic     *)
(* step: the store call together with the synchronous code that follows it *)
(* up to the next `await`.                                                 *)
(***************************************************************************)
EXTENDS Integers, Sequences, FiniteSets, TLC

\* ------------------------------------------------------------------ bounds
MaxVideos == 1       \* videos ever published, in the handler specifications
MaxFeedAssets == 4   \* assets ever uploaded, in the feed specification (two per video)
MaxAssets == 3       \* assets ever uploaded, in the handler specifications
MaxFetches == 2      \* getVideoById calls ever made
MaxToggles == 2      \* togglePublishStatus calls ever completed

\* ------------------------------------------------------- program constants
DefaultPage == 1
DefaultLimit == 10

\* ------------------------------------------------------------ value domains
Users == {"u1", "u2"}
Procs == {"p1", "p2"}
Undef == "undefined"
\* the n-th _id the Video collection hands out; "not-an-id" is a malformed one
VideoId(n) == "v" \o ToString(n)
NotAnId == "not-an-id"

\* the request values the handlers are exercised with
PublishTitles == {Undef, " ", "A"}
PublishDescriptions == {Undef, " ", "D"}
UpdateTitles == {Undef, "", "B"}
UpdateDescriptions == {Undef, "E"}
ThumbnailPaths == {Undef, "path"}
\* req.files: undefined, or an object whose fields may be absent or lack a path
NoFiles == [videoFile |-> Undef, thumbnail |-> Undef]
BothFiles == [videoFile |-> "path", thumbnail |-> "path"]
FilesInputs == {NoFiles, BothFiles,
                [videoFile |-> "absent", thumbnail |-> "path"],
                [videoFile |-> "path", thumbnail |-> "absent"],
                [videoFile |-> "path", thumbnail |-> "nopath"]}
Queries == {Undef, "A"}
OwnerFilters == {Undef, NotAnId, "u1"}
SortFields == {Undef, "views", "createdAt", "duration"}
SortTypes == {Undef, "asc", "desc"}
Pages == {Undef, "2"}
Limits == {Undef, "1"}

VARIABLES
    videos,        \* Video collection: _id -> document
    nextId,        \* the next _id Video.create hands out (ids are never reused)
    watchHistory,  \* User collection: user -> watchHistory array
    assets,        \* Asset Store: the public_ids it holds
    nextAsset,     \* the next public_id an upload hands out
    pc,            \* each handler's position
    req,           \* each handler's request
    loc,           \* each handler's local variables
    res,           \* each handler's response (or the error it threw)
    fetched,       \* history: completed getVideoById calls per caller and video
    toggled        \* history: completed togglePublishStatus calls per video

vars == <<videos, nextId, watchHistory, assets, nextAsset, pc, req, loc, res,
          fetched, toggled>>

store == <<videos, nextId, watchHistory, assets, nextAsset>>

NoReq == [op |-> "none"]
NoLoc == <<>>
NoRes == [status |-> 0, err |-> "pending"]

\* new ApiError(status, ...) thrown out of the handler; err is the class the
\* error taxonomy gives the failure
ApiError(status, err) == [status |-> status, err |-> err]
\* new ApiResponse(200, data, ...)
ApiResponse(data) == [status |-> 200, err |-> "none", data |-> data]
\* a TypeError of the runtime (a property read of undefined or null)
TypeError == [status |-> 500, err |-> "TypeError"]

\* mongoose.isValidObjectId
isValidObjectId(id) == id # NotAnId

\* parseInt(s, 10) on the query strings of the model
parseInt(s) == CASE s = "1" -> 1 [] s = "2" -> 2 [] s = "10" -> 10 [] OTHER -> 0

\* String.prototype.trim on the strings of the model
trim(s) == IF s = " " THEN "" ELSE s

\* JavaScript truthiness of an optional string
truthy(s) == s # Undef /\ s # ""

RECURSIVE SumOver(_, _)
SumOver(S, f) ==
    IF S = {} THEN 0
    ELSE LET x == CHOOSE y \in S : TRUE IN f[x] + SumOver(S \ {x}, f)

Count(s, v) == Cardinality({i \in 1..Len(s) : s[i] = v})

\* what the Asset Store returns for an upload
NoUpload == [url |-> <<>>, public_id |-> 0, duration |-> 0]
Uploaded(a, d) == [url |-> <<a>>, public_id |-> a, duration |-> d]

\* the bounds on what the specifications explore -------------------------
\* uploads other handlers in flight may still make
PendingUploads(p) ==
    Cardinality({q \in Procs \ {p} : pc[q] \in {"pub_thumbnail", "uv_select", "uv_upload"}})

AssetBudget(p, need) == (nextAsset - 1) + PendingUploads(p) + need <= MaxAssets

PendingCreates(p) ==
    Cardinality({q \in Procs \ {p} : pc[q] \in {"pub_thumbnail", "pub_create"}})

CanPublish(p, max) == nextId + PendingCreates(p) <= max /\ AssetBudget(p, 2)

CanPublishFeed == (nextAsset - 1) + 2 <= MaxFeedAssets

TotalFetched ==
    SumOver(Users \X DOMAIN toggled,
            [x \in Users \X DOMAIN toggled |-> fetched[x[1]][x[2]]])

PendingFetches ==
    Cardinality({q \in Procs : pc[q] \in {"gv_inc", "gv_user", "gv_save"}})

CanFetch == TotalFetched + PendingFetches < MaxFetches

CanToggle ==
    SumOver(DOMAIN toggled, toggled)
        + Cardinality({q \in Procs : pc[q] = "tp_write"}) < MaxToggles

Init ==
    /\ videos = <<>>
    /\ nextId = 1
    /\ watchHistory = [u \in Users |-> <<>>]
    /\ assets = {}
    /\ nextAsset = 1
    /\ pc = [p \in Procs |-> "idle"]
    /\ req = [p \in Procs |-> NoReq]
    /\ loc = [p \in Procs |-> NoLoc]
    /\ res = [p \in Procs |-> NoRes]
    /\ fetched = [u \in Users |-> <<>>]
    /\ toggled = <<>>

\* a handler throws or responds: its promise settles
Finish(p, r) ==
    /\ pc' = [pc EXCEPT ![p] = "done"]
    /\ res' = [res EXCEPT ![p] = r]

Goto(p, label) ==
    /\ pc' = [pc EXCEPT ![p] = label]
    /\ UNCHANGED res

\* uploadOnCloudinary: the upload fails (null) or stores a new asset
\* (an image reports no duration, a video file one of `durations`)
UploadResults(durations) == {NoUpload} \cup {Uploaded(nextAsset, d) : d \in durations}
ImageUploads == UploadResults({0})

uploadOnCloudinary(up) ==
    IF up = NoUpload
    THEN UNCHANGED <<assets, nextAsset>>
    ELSE /\ assets' = assets \cup {nextAsset}
         /\ nextAsset' = nextAsset + 1

\* deleteFromCloudinary(public_id)
deleteFromCloudinary(id) == assets' = assets \ {id}

\* ---------------------------------------------------------- publishAVideo
\* the Video schema's required fields, checked by Video.create
VideoSchemaValid(title, description) == title # Undef /\ description # Undef

\* validation, then the first await: the video file's upload
publishAVideo(p, caller, title, description, files, up) ==
    /\ pc[p] = "idle"
    /\ req' = [req EXCEPT ![p] = [op |-> "publishAVideo", caller |-> caller,
                                  title |-> title, description |-> description,
                                  files |-> files]]
    /\ UNCHANGED <<videos, nextId, watchHistory, fetched, toggled>>
    /\ IF trim(title) = "" \/ trim(description) = ""
       THEN /\ Finish(p, ApiError(400, "InvalidArgument"))
            /\ UNCHANGED <<loc, assets, nextAsset>>
       ELSE IF files # NoFiles /\ (files.videoFile = "absent" \/ files.thumbnail = "absent")
       THEN /\ Finish(p, TypeError)
            /\ UNCHANGED <<loc, assets, nextAsset>>
       ELSE IF files = NoFiles \/ files.videoFile = "nopath" \/ files.thumbnail = "nopath"
       THEN /\ Finish(p, ApiError(400, "InvalidArgument"))
            /\ UNCHANGED <<loc, assets, nextAsset>>
       ELSE /\ uploadOnCloudinary(up)
            /\ loc' = [loc EXCEPT ![p] = [videoFile |-> up]]
            /\ Goto(p, "pub_thumbnail")

\* the thumbnail's upload, then the two null checks
publishAVideo_uploadThumbnail(p, up) ==
    /\ pc[p] = "pub_thumbnail"
    /\ UNCHANGED <<videos, nextId, watchHistory, req, fetched, toggled>>
    /\ uploadOnCloudinary(up)
    /\ IF loc[p].videoFile = NoUpload \/ up = NoUpload
       THEN /\ Finish(p, ApiError(400, "UpstreamFailure"))
            /\ UNCHANGED loc
       ELSE /\ loc' = [loc EXCEPT ![p] = [videoFile |-> loc[p].videoFile,
                                          thumbnail |-> up]]
            /\ Goto(p, "pub_create")

\* Video.create
publishAVideo_create(p) ==
    /\ pc[p] = "pub_create"
    /\ UNCHANGED <<watchHistory, assets, nextAsset, req>>
    /\ IF ~VideoSchemaValid(req[p].title, req[p].description)
       THEN /\ Finish(p, [status |-> 500, err |-> "ValidationError"])
            /\ UNCHANGED <<videos, nextId, loc, fetched, toggled>>
       ELSE /\ videos' = (VideoId(nextId) :> [
                    title |-> req[p].title,
                    description |-> req[p].description,
                    duration |-> loc[p].videoFile.duration,
                    videoFile |-> [url |-> loc[p].videoFile.url,
                                   public_id |-> loc[p].videoFile.public_id],
                    thumbnail |-> [url |-> loc[p].thumbnail.url,
                                   public_id |-> loc[p].thumbnail.public_id],
                    owner |-> req[p].caller,
                    views |-> 0,
                    isPublished |-> TRUE,
                    createdAt |-> nextId]) @@ videos
            /\ nextId' = nextId + 1
            /\ fetched' = [u \in Users |-> (VideoId(nextId) :> 0) @@ fetched[u]]
            /\ toggled' = (VideoId(nextId) :> 0) @@ toggled
            /\ loc' = [loc EXCEPT ![p] = [video |-> VideoId(nextId)]]
            /\ Goto(p, "pub_find")

\* Video.findById(video._id), the re-fetch of the created document
publishAVideo_findById(p) ==
    /\ pc[p] = "pub_find"
    /\ UNCHANGED <<store, req, loc, fetched, toggled>>
    /\ IF loc[p].video \notin DOMAIN videos
       THEN Finish(p, ApiError(401, "Internal"))
       ELSE Finish(p, ApiResponse(loc[p].video))

\* ----------------------------------------------------------- getVideoById
\* the identifiers a request can name: every _id handed out so far, or a malformed one
KnownIds == {VideoId(n) : n \in 1..(nextId - 1)} \cup {NotAnId}

\* Video.aggregate([$match _id, ...]): an array, empty when nothing matches
getVideoById(p, caller, videoId) ==
    /\ pc[p] = "idle"
    /\ req' = [req EXCEPT ![p] = [op |-> "getVideoById", caller |-> caller,
                                  videoId |-> videoId]]
    /\ UNCHANGED <<store, fetched, toggled>>
    /\ IF ~isValidObjectId(videoId)
       THEN /\ Finish(p, ApiError(400, "InvalidArgument"))
            /\ UNCHANGED loc
       ELSE /\ loc' = [loc EXCEPT ![p] = [video |->
                    IF videoId \in DOMAIN videos
                    THEN <<[_id |-> videoId, views |-> videos[videoId].views]>>
                    ELSE <<>>]]
            \* if(!video): an array is never falsy, so no 404 is thrown
            /\ Goto(p, "gv_inc")

\* Video.findByIdAndUpdate(videoId, {$inc: {views: 1}})
getVideoById_incViews(p) ==
    /\ pc[p] = "gv_inc"
    /\ videos' = IF req[p].videoId \in DOMAIN videos
                 THEN [videos EXCEPT ![req[p].videoId].views = @ + 1]
                 ELSE videos
    /\ Goto(p, "gv_user")
    /\ UNCHANGED <<nextId, watchHistory, assets, nextAsset, req, loc, fetched, toggled>>

\* User.findById(req.user._id).select('watchHistory'), then the local push
getVideoById_findUser(p) ==
    /\ pc[p] = "gv_user"
    /\ loc' = [loc EXCEPT ![p] = [video |-> loc[p].video,
                 watchHistory |-> Append(watchHistory[req[p].caller], req[p].videoId)]]
    /\ Goto(p, "gv_save")
    /\ UNCHANGED <<store, req, fetched, toggled>>

\* (mutant) the save adds the identifier as to a set, $addToSet, not a $push
getVideoById_save_addToSet(p) ==
    /\ pc[p] = "gv_save"
    /\ watchHistory' = [watchHistory EXCEPT ![req[p].caller] =
            IF Count(@, req[p].videoId) > 0 THEN @ ELSE Append(@, req[p].videoId)]
    /\ fetched' = [fetched EXCEPT ![req[p].caller][req[p].videoId] = @ + 1]
    /\ Finish(p, ApiResponse(loc[p]))
    /\ UNCHANGED <<videos, nextId, assets, nextAsset, req, loc, toggled>>

\* user.save(): the pushed element goes to the store as a $push
getVideoById_save(p) ==
    /\ pc[p] = "gv_save"
    /\ watchHistory' = [watchHistory EXCEPT ![req[p].caller] = Append(@, req[p].videoId)]
    /\ fetched' = [fetched EXCEPT ![req[p].caller][req[p].videoId] = @ + 1]
    /\ Finish(p, ApiResponse(loc[p]))
    /\ UNCHANGED <<videos, nextId, assets, nextAsset, req, loc, toggled>>

\* ------------------------------------------------------------ updateVideo
\* (mutant) only the video's existence is checked, not its owner
NotOwner_existenceOnly(videoId, caller) == videoId \notin DOMAIN videos

\* currentVideo?.owner.toString() != req.user?._id
NotOwner(videoId, caller) ==
    videoId \notin DOMAIN videos \/ videos[videoId].owner # caller

\* (mutant) the last negation is missing
NoFieldPassed_typo(title, description, thumbnailLocalPath) ==
    ~truthy(title) /\ ~truthy(description) /\ truthy(thumbnailLocalPath)

\* !title && !description && !thumbnailLocalPath
NoFieldPassed(title, description, thumbnailLocalPath) ==
    ~truthy(title) /\ ~truthy(description) /\ ~truthy(thumbnailLocalPath)

\* Video.findById(videoId), the owner check and the at-least-one-field check
updateVideo(p, caller, videoId, title, description, thumbnailLocalPath) ==
    /\ pc[p] = "idle"
    /\ req' = [req EXCEPT ![p] = [op |-> "updateVideo", caller |-> caller,
                                  videoId |-> videoId, title |-> title,
                                  description |-> description,
                                  thumbnailLocalPath |-> thumbnailLocalPath]]
    /\ UNCHANGED <<store, fetched, toggled>>
    /\ IF ~isValidObjectId(videoId)
       THEN Finish(p, ApiError(400, "InvalidArgument")) /\ UNCHANGED loc
       ELSE IF NotOwner(videoId, caller)
       THEN Finish(p, ApiError(400, "Forbidden")) /\ UNCHANGED loc
       ELSE IF NoFieldPassed(title, description, thumbnailLocalPath)
       THEN Finish(p, ApiError(400, "InvalidArgument")) /\ UNCHANGED loc
       ELSE IF truthy(thumbnailLocalPath)
       THEN /\ loc' = [loc EXCEPT ![p] = [currentVideo |-> videos[videoId]]]
            /\ Goto(p, "uv_select")
       ELSE \* oldImageUrl was never assigned on this branch
            /\ loc' = [loc EXCEPT ![p] = [currentVideo |-> videos[videoId],
                         thumbnail |-> [url |-> <<>>,
                                        public_id |-> videos[videoId].thumbnail.public_id]]]
            /\ Goto(p, "uv_write")

\* Video.findById(videoId).select("thumbnail"); oldImageUrl = video.thumbnail.url
updateVideo_selectThumbnail(p) ==
    /\ pc[p] = "uv_select"
    /\ UNCHANGED <<store, req, fetched, toggled>>
    /\ IF req[p].videoId \notin DOMAIN videos
       THEN Finish(p, TypeError) /\ UNCHANGED loc
       ELSE /\ loc' = [loc EXCEPT ![p] = [currentVideo |-> loc[p].currentVideo,
                         video |-> [thumbnail |-> videos[req[p].videoId].thumbnail]]]
            /\ Goto(p, "uv_upload")

\* thumbnail = await uploadOnCloudinary(thumbnailLocalPath)
updateVideo_upload(p, up) ==
    /\ pc[p] = "uv_upload"
    /\ UNCHANGED <<videos, nextId, watchHistory, req, fetched, toggled>>
    /\ uploadOnCloudinary(up)
    /\ IF up = NoUpload
       THEN Finish(p, ApiError(401, "UpstreamFailure")) /\ UNCHANGED loc
       ELSE /\ loc' = [loc EXCEPT ![p] = [currentVideo |-> loc[p].currentVideo,
                         video |-> loc[p].video,
                         thumbnail |-> [url |-> up.url, public_id |-> up.public_id]]]
            /\ Goto(p, "uv_delete")

\* await deleteFromCloudinary(video.thumbnail.public_id)
updateVideo_deleteOld(p) ==
    /\ pc[p] = "uv_delete"
    /\ deleteFromCloudinary(loc[p].video.thumbnail.public_id)
    /\ Goto(p, "uv_write")
    /\ UNCHANGED <<videos, nextId, watchHistory, nextAsset, req, loc, fetched, toggled>>

\* $set {title, description, thumbnail}: an undefined title or description is
\* dropped from the update; thumbnail is replaced as a whole
SetFields(doc, title, description, thumbnail) ==
    [doc EXCEPT !.title = IF title = Undef THEN @ ELSE title,
                !.description = IF description = Undef THEN @ ELSE description,
                !.thumbnail = [url |-> thumbnail.url, public_id |-> thumbnail.public_id]]

\* Video.findByIdAndUpdate(videoId, {$set: ...}, {new: true})
updateVideo_write(p) ==
    /\ pc[p] = "uv_write"
    /\ UNCHANGED <<nextId, watchHistory, assets, nextAsset, req, loc, fetched, toggled>>
    /\ IF req[p].videoId \notin DOMAIN videos
       THEN Finish(p, ApiError(500, "Internal")) /\ UNCHANGED videos
       ELSE /\ videos' = [videos EXCEPT ![req[p].videoId] =
                    SetFields(@, req[p].title, req[p].description, loc[p].thumbnail)]
            /\ Finish(p, ApiResponse(req[p].videoId))

\* ------------------------------------------------------------ deleteVideo
\* Video.findById(videoId) and the owner check
deleteVideo(p, caller, videoId) ==
    /\ pc[p] = "idle"
    /\ req' = [req EXCEPT ![p] = [op |-> "deleteVideo", caller |-> caller,
                                  videoId |-> videoId]]
    /\ UNCHANGED <<store, loc, fetched, toggled>>
    /\ IF ~isValidObjectId(videoId)
       THEN Finish(p, ApiError(400, "InvalidArgument"))
       ELSE IF NotOwner(videoId, caller)
       THEN Finish(p, ApiError(400, "Forbidden"))
       ELSE Goto(p, "dv_pull")

\* $pull: every occurrence of the value leaves the array
Pull(s, v) == SelectSeq(s, LAMBDA x : x # v)

\* User.updateMany({watchHistory: {$in: [videoId]}}, {$pull: {watchHistory: videoId}})
deleteVideo_pull(p) ==
    /\ pc[p] = "dv_pull"
    /\ watchHistory' = [u \in Users |-> Pull(watchHistory[u], req[p].videoId)]
    /\ Goto(p, "dv_delete")
    /\ UNCHANGED <<videos, nextId, assets, nextAsset, req, loc, fetched, toggled>>

\* Video.findByIdAndDelete(videoId)
deleteVideo_delete(p) ==
    /\ pc[p] = "dv_delete"
    /\ UNCHANGED <<nextId, watchHistory, assets, nextAsset, req, fetched, toggled>>
    /\ IF req[p].videoId \notin DOMAIN videos
       THEN Finish(p, ApiError(400, "NotFound")) /\ UNCHANGED <<videos, loc>>
       ELSE /\ videos' = [v \in DOMAIN videos \ {req[p].videoId} |-> videos[v]]
            /\ loc' = [loc EXCEPT ![p] = [deletedVideo |->
                         [videoFile |-> videos[req[p].videoId].videoFile,
                          thumbnail |-> videos[req[p].videoId].thumbnail]]]
            /\ Goto(p, "dv_videoFile")

\* await deleteFromCloudinary(deletedVideo.videoFile.public_id)
deleteVideo_deleteVideoFile(p) ==
    /\ pc[p] = "dv_videoFile"
    /\ deleteFromCloudinary(loc[p].deletedVideo.videoFile.public_id)
    /\ Goto(p, "dv_thumbnail")
    /\ UNCHANGED <<videos, nextId, watchHistory, nextAsset, req, loc, fetched, toggled>>

\* await deleteFromCloudinary(deletedVideo.thumbnail.public_id)
deleteVideo_deleteThumbnail(p) ==
    /\ pc[p] = "dv_thumbnail"
    /\ deleteFromCloudinary(loc[p].deletedVideo.thumbnail.public_id)
    /\ Finish(p, ApiResponse(req[p].videoId))
    /\ UNCHANGED <<videos, nextId, watchHistory, nextAsset, req, loc, fetched, toggled>>

\* ---------------------------------------------------- togglePublishStatus
\* Video.findById(videoId), the existence check and the owner check
togglePublishStatus(p, caller, videoId) ==
    /\ pc[p] = "idle"
    /\ req' = [req EXCEPT ![p] = [op |-> "togglePublishStatus", caller |-> caller,
                                  videoId |-> videoId]]
    /\ UNCHANGED <<store, fetched, toggled>>
    /\ IF ~isValidObjectId(videoId)
       THEN Finish(p, ApiError(400, "InvalidArgument")) /\ UNCHANGED loc
       ELSE IF videoId \notin DOMAIN videos
       THEN Finish(p, ApiError(401, "NotFound")) /\ UNCHANGED loc
       ELSE IF NotOwner(videoId, caller)
       THEN Finish(p, ApiError(400, "Forbidden")) /\ UNCHANGED loc
       ELSE /\ loc' = [loc EXCEPT ![p] = [currentVideo |->
                         [isPublished |-> videos[videoId].isPublished]]]
            /\ Goto(p, "tp_write")

\* (mutant) the negation is missing
ToggledValue_same(p) == loc[p].currentVideo.isPublished

\* the value the $set writes: !currentVideo?.isPublished
ToggledValue(p) == ~loc[p].currentVideo.isPublished

\* Video.findByIdAndUpdate(videoId, {$set: {isPublished: ...}}, {new: true})
togglePublishStatus_write(p) ==
    /\ pc[p] = "tp_write"
    /\ UNCHANGED <<nextId, watchHistory, assets, nextAsset, req, loc, fetched>>
    /\ IF req[p].videoId \notin DOMAIN videos
       THEN Finish(p, TypeError) /\ UNCHANGED <<videos, toggled>>
       ELSE /\ videos' = [videos EXCEPT ![req[p].videoId].isPublished = ToggledValue(p)]
            /\ toggled' = [toggled EXCEPT ![req[p].videoId] = @ + 1]
            /\ Finish(p, ApiResponse([isPublished |-> ToggledValue(p)]))

\* ----------------------------------------------------------- getAllVideos
\* $search on title and description (the text index, taken as exact match)
SearchMatches(query, doc) == doc.title = query \/ doc.description = query

\* (mutant) the $match on isPublished is missing
Matched_unpublished(query, userId) ==
    {v \in DOMAIN videos :
        /\ truthy(query) => SearchMatches(query, videos[v])
        /\ truthy(userId) => videos[v].owner = userId}

\* the documents the $search and $match stages let through
Matched(query, userId) ==
    {v \in DOMAIN videos :
        /\ truthy(query) => SearchMatches(query, videos[v])
        /\ truthy(userId) => videos[v].owner = userId
        /\ videos[v].isPublished = TRUE}

\* the $sort stage's field and direction
SortField(sortBy, sortType) ==
    IF truthy(sortBy) /\ truthy(sortType) THEN sortBy ELSE "createdAt"
SortDir(sortBy, sortType) ==
    IF truthy(sortBy) /\ truthy(sortType)
    THEN (IF sortType = "asc" THEN 1 ELSE -1)
    ELSE -1

FieldOf(doc, field) ==
    CASE field = "views" -> doc.views
      [] field = "duration" -> doc.duration
      [] OTHER -> doc.createdAt

\* the orders $sort may produce: ties are left in any order
Sorted(S, field, dir) ==
    {s \in [1..Cardinality(S) -> S] :
        /\ \A i, j \in 1..Cardinality(S) : i # j => s[i] # s[j]
        /\ \A i, j \in 1..Cardinality(S) :
              i < j => dir * FieldOf(videos[s[i]], field) <= dir * FieldOf(videos[s[j]], field)}

\* aggregatePaginate: skip (page - 1) * limit, keep limit
PageOf(s, page, limit) ==
    SubSeq(s, (page - 1) * limit + 1,
           IF page * limit < Len(s) THEN page * limit ELSE Len(s))

getAllVideos(p, query, userId, sortBy, sortType, page, limit) ==
    /\ pc[p] = "idle"
    /\ req' = [req EXCEPT ![p] = [op |-> "getAllVideos", query |-> query,
                                  userId |-> userId, sortBy |-> sortBy,
                                  sortType |-> sortType, page |-> page, limit |-> limit]]
    /\ UNCHANGED <<store, loc, fetched, toggled>>
    /\ IF truthy(userId) /\ ~isValidObjectId(userId)
       THEN Finish(p, ApiError(400, "InvalidArgument"))
       ELSE \E s \in Sorted(Matched(query, userId), SortField(sortBy, sortType),
                             SortDir(sortBy, sortType)) :
            Finish(p, ApiResponse([
                docs |-> PageOf(s, IF page = Undef THEN DefaultPage ELSE parseInt(page),
                                   IF limit = Undef THEN DefaultLimit ELSE parseInt(limit)),
                totalDocs |-> Len(s)]))

\* ------------------------------------------------------------------- Next
\* the response is sent; the worker takes the next request
Return(p) ==
    /\ pc[p] = "done"
    /\ pc' = [pc EXCEPT ![p] = "idle"]
    /\ req' = [req EXCEPT ![p] = NoReq]
    /\ loc' = [loc EXCEPT ![p] = NoLoc]
    /\ res' = [res EXCEPT ![p] = NoRes]
    /\ UNCHANGED <<store, fetched, toggled>>

\* the steps each handler takes after its first
PublishSteps(p) ==
    \/ \E up \in ImageUploads : publishAVideo_uploadThumbnail(p, up)
    \/ publishAVideo_create(p)
    \/ publishAVideo_findById(p)

FetchSteps(p) ==
    \/ getVideoById_incViews(p)
    \/ getVideoById_findUser(p)
    \/ getVideoById_save(p)

UpdateSteps(p) ==
    \/ updateVideo_selectThumbnail(p)
    \/ \E up \in ImageUploads : updateVideo_upload(p, up)
    \/ updateVideo_deleteOld(p)
    \/ updateVideo_write(p)

DeleteSteps(p) ==
    \/ deleteVideo_pull(p)
    \/ deleteVideo_delete(p)
    \/ deleteVideo_deleteVideoFile(p)
    \/ deleteVideo_deleteThumbnail(p)

\* the requests of the six routes
Requests(p) ==
    \/ /\ pc[p] = "idle" /\ CanPublish(p, MaxVideos)
       /\ \E u \in Users, t \in PublishTitles, d \in PublishDescriptions,
             f \in FilesInputs, up \in UploadResults({1, 2}) :
             publishAVideo(p, u, t, d, f, up)
    \/ /\ pc[p] = "idle" /\ CanFetch
       /\ \E u \in Users, v \in KnownIds : getVideoById(p, u, v)
    \/ /\ pc[p] = "idle" /\ AssetBudget(p, 1)
       /\ \E u \in Users, v \in KnownIds, t \in UpdateTitles, d \in UpdateDescriptions,
             th \in ThumbnailPaths : updateVideo(p, u, v, t, d, th)
    \/ /\ pc[p] = "idle"
       /\ \E u \in Users, v \in KnownIds : deleteVideo(p, u, v)
    \/ /\ pc[p] = "idle" /\ CanToggle
       /\ \E u \in Users, v \in KnownIds : togglePublishStatus(p, u, v)
    \/ /\ pc[p] = "idle"
       /\ \E q \in Queries, o \in OwnerFilters, sb \in SortFields, st \in SortTypes,
             pg \in Pages, lm \in Limits : getAllVideos(p, q, o, sb, st, pg, lm)

\* handlers of concurrently served requests interleave at their awaits
Next ==
    \E p \in Procs :
        \/ Requests(p)
        \/ PublishSteps(p) \/ FetchSteps(p) \/ UpdateSteps(p) \/ DeleteSteps(p)
        \/ togglePublishStatus_write(p)
        \/ Return(p)

Spec == Init /\ [][Next]_vars

\* One request at a time, the five routes that read or write one video: a
\* handler runs to its response before the next request starts.
SeqNext ==
    \/ /\ pc["p1"] = "idle" /\ CanPublish("p1", MaxVideos)
       /\ \E u \in Users, t \in PublishTitles, d \in PublishDescriptions,
             f \in FilesInputs, up \in UploadResults({1}) :
             publishAVideo("p1", u, t, d, f, up)
    \/ /\ pc["p1"] = "idle" /\ CanFetch
       /\ \E u \in Users, v \in KnownIds : getVideoById("p1", u, v)
    \/ /\ pc["p1"] = "idle" /\ AssetBudget("p1", 1)
       /\ \E u \in Users, v \in KnownIds, t \in UpdateTitles, d \in UpdateDescriptions,
             th \in ThumbnailPaths : updateVideo("p1", u, v, t, d, th)
    \/ /\ pc["p1"] = "idle"
       /\ \E u \in Users, v \in KnownIds : deleteVideo("p1", u, v)
    \/ /\ pc["p1"] = "idle" /\ CanToggle
       /\ \E u \in Users, v \in KnownIds : togglePublishStatus("p1", u, v)
    \/ PublishSteps("p1") \/ FetchSteps("p1") \/ UpdateSteps("p1") \/ DeleteSteps("p1")
    \/ togglePublishStatus_write("p1")
    \/ Return("p1")

SeqSpec == Init /\ [][SeqNext]_vars

\* Concurrently served requests on one video: well-formed publish requests,
\* then fetches, toggles and deletes whose steps interleave at their awaits.
ConcNext ==
    \E p \in Procs :
        \/ /\ pc[p] = "idle" /\ CanPublish(p, MaxVideos)
           /\ \E u \in Users, up \in UploadResults({1}) :
                 publishAVideo(p, u, "A", "D", BothFiles, up)
        \/ /\ pc[p] = "idle" /\ CanFetch
           /\ \E u \in Users, v \in KnownIds \ {NotAnId} : getVideoById(p, u, v)
        \/ /\ pc[p] = "idle" /\ CanToggle
           /\ \E u \in Users, v \in KnownIds \ {NotAnId} : togglePublishStatus(p, u, v)
        \/ /\ pc[p] = "idle"
           /\ \E u \in Users, v \in KnownIds \ {NotAnId} : deleteVideo(p, u, v)
        \/ PublishSteps(p) \/ FetchSteps(p) \/ DeleteSteps(p)
        \/ togglePublishStatus_write(p)
        \/ Return(p)

ConcSpec == Init /\ [][ConcNext]_vars

\* The feed: one request at a time; well-formed publish requests whose uploads
\* succeed, fetches and toggles build the collection that getAllVideos lists.
FeedNext ==
    \/ /\ pc["p1"] = "idle" /\ CanPublishFeed
       /\ \E u \in Users, t \in {"A", "B"}, up \in UploadResults({1, 2}) \ {NoUpload} :
             publishAVideo("p1", u, t, "D", BothFiles, up)
    \/ /\ pc["p1"] = "idle" /\ CanFetch
       /\ \E v \in KnownIds \ {NotAnId} : getVideoById("p1", "u1", v)
    \/ /\ pc["p1"] = "idle" /\ CanToggle
       /\ \E v \in DOMAIN videos : togglePublishStatus("p1", videos[v].owner, v)
    \/ /\ pc["p1"] = "idle"
       /\ \E q \in Queries, o \in OwnerFilters, sb \in SortFields, st \in SortTypes,
             pg \in Pages, lm \in Limits : getAllVideos("p1", q, o, sb, st, pg, lm)
    \/ \E up \in ImageUploads \ {NoUpload} : publishAVideo_uploadThumbnail("p1", up)
    \/ publishAVideo_create("p1")
    \/ publishAVideo_findById("p1")
    \/ FetchSteps("p1")
    \/ togglePublishStatus_write("p1")
    \/ Return("p1")

FeedSpec == Init /\ [][FeedNext]_vars

\* ----------------------------------------------------------------- claims
Done(p, op) == pc[p] = "done" /\ req[p].op = op
Succeeded(p, op) == Done(p, op) /\ res[p].err = "none"
\* identifiers that were handed out and whose document is gone
Deleted == DOMAIN toggled \ DOMAIN videos

\* C1: when a getVideoById call on an existing video has completed, the video's
\* view counter equals the number of completed fetches of it (it started at 0 and
\* rose by one per call), the caller's watch-history holds the identifier once
\* per fetch the caller completed, the last entry is this call's, and the
\* response carries that history.
C1_FetchCountsViewAndHistory ==
    \A p \in Procs :
        (Succeeded(p, "getVideoById") /\ req[p].videoId \in DOMAIN videos) =>
            LET u == req[p].caller
                v == req[p].videoId
            IN /\ videos[v].views = SumOver(Users, [w \in Users |-> fetched[w][v]])
               /\ Count(watchHistory[u], v) = fetched[u][v]
               /\ watchHistory[u] # <<>>
               /\ watchHistory[u][Len(watchHistory[u])] = v
               /\ res[p].data.watchHistory = watchHistory[u]

\* C1 witness: the second fetch of an existing video by the same caller has completed
C1_Witness ==
    \E p \in Procs :
        /\ Succeeded(p, "getVideoById")
        /\ req[p].videoId \in DOMAIN videos
        /\ fetched[req[p].caller][req[p].videoId] = 2
        /\ videos[req[p].videoId].views = 2
        /\ watchHistory[req[p].caller] = <<req[p].videoId, req[p].videoId>>

\* C2: once a video is deleted, no watch-history contains its identifier and
\* every completed getVideoById for it has failed with NotFound.
C2_DeletedVideoStaysGone ==
    \A v \in Deleted :
        /\ \A u \in Users : Count(watchHistory[u], v) = 0
        /\ \A p \in Procs :
              (Done(p, "getVideoById") /\ req[p].videoId = v) => res[p].err = "NotFound"

\* C7: the published flag of a video is its value at creation (true) negated once
\* per completed toggle, so two successive toggles restore it; a completed toggle
\* responds with the new flag and nothing else.
C7_ToggleTwiceRestores ==
    /\ \A v \in DOMAIN videos : videos[v].isPublished = (toggled[v] % 2 = 0)
    /\ \A p \in Procs :
          Succeeded(p, "togglePublishStatus") =>
              res[p].data = [isPublished |-> videos[req[p].videoId].isPublished]

\* C7 witness: the second toggle of a video has completed and the flag is back
C7_Witness ==
    \E p \in Procs :
        /\ Succeeded(p, "togglePublishStatus")
        /\ toggled[req[p].videoId] = 2
        /\ videos[req[p].videoId].isPublished = TRUE

\* the handler of p takes its first step, for request r
Starts(p, op) == pc[p] = "idle" /\ pc'[p] # "idle" /\ req'[p].op = op

\* C3: an updateVideo, deleteVideo or togglePublishStatus request on an existing
\* video by a caller who is not its owner ends at once with Forbidden, and the
\* Video collection, every watch-history and the Asset Store stay as they were.
C3_NonOwnerForbidden ==
    [][\A p \in Procs :
        \A op \in {"updateVideo", "deleteVideo", "togglePublishStatus"} :
          (/\ Starts(p, op)
           /\ req'[p].videoId \in DOMAIN videos
           /\ videos[req'[p].videoId].owner # req'[p].caller)
          => /\ pc'[p] = "done"
             /\ res'[p].err = "Forbidden"
             /\ UNCHANGED <<videos, watchHistory, assets>>]_vars

\* C3 witness: a non-owner's update that supplies a title and a thumbnail has
\* been refused, and the record still has its title and thumbnail
C3_Witness ==
    \E p \in Procs :
        /\ Done(p, "updateVideo")
        /\ req[p].videoId \in DOMAIN videos
        /\ videos[req[p].videoId].owner # req[p].caller
        /\ req[p].title = "B" /\ req[p].thumbnailLocalPath = "path"
        /\ res[p].err = "Forbidden"
        /\ videos[req[p].videoId].title = "A"

\* C4: after a successful updateVideo, every field the request did not supply
\* has the value it had before the call (thumbnail url and identifier, title,
\* description).
C4_UnsuppliedFieldsKept ==
    \A p \in Procs :
        (Succeeded(p, "updateVideo") /\ req[p].videoId \in DOMAIN videos) =>
            LET before == loc[p].currentVideo
                after == videos[req[p].videoId]
            IN /\ req[p].thumbnailLocalPath = Undef => after.thumbnail = before.thumbnail
               /\ req[p].title = Undef => after.title = before.title
               /\ req[p].description = Undef => after.description = before.description

\* a publish request the validation must refuse
InvalidPublish(r) ==
    \/ r.title = Undef \/ trim(r.title) = ""
    \/ r.description = Undef \/ trim(r.description) = ""
    \/ r.files.videoFile # "path"
    \/ r.files.thumbnail # "path"

\* C6: a publish request with a missing or blank title or description, or a
\* missing file path, has ended with InvalidArgument without an upload (it never
\* gets past the validation); a publish that succeeded has created the record,
\* owned by the caller and published.
C6_InvalidPublishRejected ==
    \A p \in Procs :
        /\ (pc[p] # "idle" /\ req[p].op = "publishAVideo" /\ InvalidPublish(req[p])) =>
              (pc[p] = "done" /\ res[p].err = "InvalidArgument")
        /\ Succeeded(p, "publishAVideo") =>
              /\ res[p].data \in DOMAIN videos
              /\ videos[res[p].data].owner = req[p].caller
              /\ videos[res[p].data].isPublished = TRUE

\* C8: an updateVideo request by the owner that supplies no title, no description
\* and no thumbnail ends at once with InvalidArgument, and the Video collection
\* and the Asset Store stay as they were.
C8_EmptyUpdateRejected ==
    [][\A p \in Procs :
          (/\ Starts(p, "updateVideo")
           /\ req'[p].videoId \in DOMAIN videos
           /\ videos[req'[p].videoId].owner = req'[p].caller
           /\ req'[p].title = Undef
           /\ req'[p].description = Undef
           /\ req'[p].thumbnailLocalPath = Undef)
          => /\ pc'[p] = "done"
             /\ res'[p] = ApiError(400, "InvalidArgument")
             /\ UNCHANGED <<videos, assets, nextAsset>>]_vars

\* C8 witness: the owner's update with nothing supplied has been refused
C8_Witness ==
    \E p \in Procs :
        /\ Done(p, "updateVideo")
        /\ req[p].videoId \in DOMAIN videos
        /\ videos[req[p].videoId].owner = req[p].caller
        /\ req[p].title = Undef /\ req[p].description = Undef
        /\ req[p].thumbnailLocalPath = Undef
        /\ res[p].err = "InvalidArgument"
        /\ videos[req[p].videoId].thumbnail.url # <<>>

\* C9: no Video record references a thumbnail asset that the Asset Store no
\* longer holds.
C9_NoDanglingThumbnail ==
    \A v \in DOMAIN videos : videos[v].thumbnail.public_id \in assets

\* fetches of v whose $inc is done and whose response is still to come
FetchesPastInc(v) ==
    Cardinality({q \in Procs : pc[q] \in {"gv_user", "gv_save"} /\ req[q].videoId = v})

\* C10: under any interleaving no update is lost: a video's view counter is the
\* number of fetches of it whose increment is done, and its published flag is
\* its original value (true) iff an even number of toggles completed.
C10_NoLostUpdate ==
    \A v \in DOMAIN videos :
        /\ videos[v].views
              = SumOver(Users, [u \in Users |-> fetched[u][v]]) + FetchesPastInc(v)
        /\ videos[v].isPublished = (toggled[v] % 2 = 0)

\* what a feed request asks for, read off the request alone
AskedFor(r) ==
    {v \in DOMAIN videos :
        /\ videos[v].isPublished
        /\ r.userId # Undef => videos[v].owner = r.userId
        /\ r.query # Undef => SearchMatches(r.query, videos[v])}
AskedKey(r, v) ==
    IF r.sortBy = Undef \/ r.sortType = Undef THEN videos[v].createdAt
    ELSE IF r.sortBy = "views" THEN videos[v].views
    ELSE IF r.sortBy = "duration" THEN videos[v].duration
    ELSE videos[v].createdAt
AskedAscending(r) == r.sortBy # Undef /\ r.sortType = "asc"
\* a comes strictly before b in the order the request asks for
Before(r, a, b) ==
    IF AskedAscending(r) THEN AskedKey(r, a) < AskedKey(r, b)
    ELSE AskedKey(r, a) > AskedKey(r, b)
AskedSkip(r) ==
    ((IF r.page = Undef THEN DefaultPage ELSE parseInt(r.page)) - 1)
        * (IF r.limit = Undef THEN DefaultLimit ELSE parseInt(r.limit))
AskedLimit(r) == IF r.limit = Undef THEN DefaultLimit ELSE parseInt(r.limit)
InOrder(r, docs) ==
    \A i, j \in 1..Len(docs) : i < j => docs[i] # docs[j] /\ ~Before(r, docs[j], docs[i])

\* C5 as claimed: a feed request (without a text query) returns exactly the
\* published videos (of the owner asked for), in the order asked for, and
\* changes nothing.
C5_ReturnsExactlyPublished ==
    [][\A p \in Procs :
          (Starts(p, "getAllVideos") /\ res'[p].err = "none" /\ req'[p].query = Undef) =>
              /\ {res'[p].data.docs[i] : i \in 1..Len(res'[p].data.docs)} = AskedFor(req'[p])
              /\ InOrder(req'[p], res'[p].data.docs)
              /\ UNCHANGED <<videos, watchHistory, assets>>]_vars

\* C5 as amended: a feed request returns one page of the published videos (of
\* the owner asked for, matching the text query asked for): totalDocs counts
\* them all, docs holds those of rank (page-1)*limit+1 .. page*limit in the
\* order asked for (sortBy and sortType when both are given, creation time
\* descending otherwise), never an unpublished video, and all of them when they
\* fit on the page; it changes nothing.
C5_ReturnsPageOfPublished ==
    [][\A p \in Procs :
          (Starts(p, "getAllVideos") /\ res'[p].err = "none") =>
              LET r == req'[p]
                  docs == res'[p].data.docs
                  all == AskedFor(r)
                  left == Cardinality(all) - AskedSkip(r)
              IN /\ res'[p].data.totalDocs = Cardinality(all)
                 /\ Len(docs) = IF left < 0 THEN 0
                                ELSE IF left < AskedLimit(r) THEN left ELSE AskedLimit(r)
                 /\ \A i \in 1..Len(docs) :
                       /\ docs[i] \in all
                       /\ Cardinality({y \in all : Before(r, y, docs[i])}) < AskedSkip(r) + i
                       /\ AskedSkip(r) + i <= Cardinality({y \in all : ~Before(r, docs[i], y)})
                 /\ InOrder(r, docs)
                 /\ UNCHANGED <<videos, watchHistory, assets>>]_vars

\* C5 witness: a feed sorted by views ascending has returned two videos with
\* different view counts while the defaults paginate
C5_Witness ==
    \E p \in Procs :
        /\ Succeeded(p, "getAllVideos")
        /\ req[p].sortBy = "views" /\ req[p].sortType = "asc"
        /\ req[p].page = Undef /\ req[p].limit = Undef
        /\ Len(res[p].data.docs) = 2
        /\ videos[res[p].data.docs[1]].views < videos[res[p].data.docs[2]].views
        /\ videos[res[p].data.docs[1]].createdAt > videos[res[p].data.docs[2]].createdAt

====
